---- MODULE Spec2Model ----
(***************************************************************************)
(* ccenv: one Git checkout time-shared by several named environments.      *)
(* The model follows src/src/ccenv.ts (first copy, lines 1-821) and        *)
(* src/src/storage.ts.  The working tree is a Git index and a work tree    *)
(* over a small set of paths; a bundle is what dumpEnv writes into a slot  *)
(* directory; every `await` of enterEnv, exitEnv and the run command is    *)
(* one step of the invoking process.                                       *)
(***************************************************************************)
EXTENDS Integers, FiniteSets, Sequences, TLC

\* ------------------------------------------------------------------ bounds
MaxContent == 2     \* file contents are 1..MaxContent, 0 is "no such file"
NProcs == 2         \* concurrently running ccenv invocations
MaxCmds == 3        \* invocations started in one behaviour
MaxEdits == 1       \* edits of the tree by the user or a child command
MaxRuns == 2        \* run invocations started in one behaviour
SeqCmds == 3        \* invocations of the single session of SpecSeq
SeqEdits == 1       \* edits of the single session of SpecSeq
RunSeqCmds == 2     \* invocations of the single session of SpecRunSeq
AdminCmds == 3      \* invocations in SpecAdmin
LockCmds == 4       \* acquireLock/releaseLock rounds in SpecLock
UsedCmds == 2       \* invocations of the single session of SpecUsed
SlotsCmds == 3      \* invocations of the single session of SpecSlots
ApplyCmds == 3
WaitCmds == 3
BranchCmds == 3
BranchEdits == 1      \* invocations in SpecApply

\* ------------------------------------------------------------------ Git tree
Files == {"file.txt", "new.txt"}
Content == 0..MaxContent
\* makeRepo commits file.txt; every other path is absent from HEAD.
HeadOf == [f \in Files |-> IF f = "file.txt" THEN 1 ELSE 0]
\* idx and wt are the index and the work tree over Files; ign is the content of
\* a path that .gitignore matches (0: no such file).
Trees == [idx : [Files -> Content], wt : [Files -> Content], ign : {0}]
AllTrees == [idx : [Files -> Content], wt : [Files -> Content], ign : Content]
CleanTree == [idx |-> HeadOf, wt |-> HeadOf, ign |-> 0]

\* The control directory and the files in it that git lists as untracked.
ControlDir == ".ccenv"
ControlPaths == {".ccenv/lock", ".ccenv/config.json"}
TopOf(entry) == IF entry \in ControlPaths THEN ControlDir ELSE entry

\* In the work tree, not in the index, not ignored.
Untracked(t) == {f \in Files : t.idx[f] = 0 /\ t.wt[f] # 0}
\* git ls-files --others --exclude-standard, run at the repository root
untrackedList(t) == Untracked(t) \cup ControlPaths
\* entry !== ".ccenv" && !entry.startsWith(".ccenv/")
UnderControl(entry) == entry = ControlDir \/ TopOf(entry) = ControlDir
ContentAt(t, f) == IF f \in Files THEN t.wt[f] ELSE 1
\* git diff --cached --binary: index against HEAD, one <<path, pre, post>> per path.
StagedDiff(t) == {<<f, HeadOf[f], t.idx[f]>> : f \in {g \in Files : HeadOf[g] # t.idx[g]}}
\* git diff --binary: work tree against index, for the paths of the index.
UnstagedDiff(t) ==
  {<<f, t.idx[f], t.wt[f]>> : f \in {g \in Files : t.idx[g] # 0 /\ t.wt[g] # t.idx[g]}}

\* A slot directory: dir is whether it exists; tar = {} is "no untracked.tar.gz".
NoSlot == [dir |-> FALSE, tar |-> {}, staged |-> {}, unstaged |-> {}]
\* What createEnv writes: two empty patches and info.json.
EmptyBundle == [dir |-> TRUE, tar |-> {}, staged |-> {}, unstaged |-> {}]

\* dumpEnv(targetDir): old is the slot directory as found (mkdir makes it).
dumpEnv_KeepsArchive(t, old) ==
  [dir |-> TRUE,
   tar |-> IF Untracked(t) # {} THEN {<<f, t.wt[f]>> : f \in Untracked(t)} ELSE old.tar,
   staged |-> StagedDiff(t),
   unstaged |-> UnstagedDiff(t)]
dumpEnv(t, old) ==
  LET untrackedFiltered == {entry \in untrackedList(t) : ~UnderControl(entry)}
  IN [dir |-> TRUE,
      tar |-> IF untrackedFiltered # {}
              THEN {<<f, ContentAt(t, f)>> : f \in untrackedFiltered}
              ELSE IF old.tar # {} THEN {} ELSE old.tar,
      staged |-> StagedDiff(t),
      unstaged |-> UnstagedDiff(t)]

\* git reset --hard HEAD: index and tracked paths back to HEAD; a path that is
\* neither in the index nor in HEAD is left alone.
gitResetHard(t) ==
  [idx |-> HeadOf,
   wt |-> [f \in Files |-> IF t.idx[f] # 0 \/ HeadOf[f] # 0 THEN HeadOf[f] ELSE t.wt[f]],
   ign |-> t.ign]
\* git clean -fd -e .ccenv/ -e .ccenv: removes what is untracked; without -x an
\* ignored path stays.
gitClean_X(t) == [t EXCEPT !.wt = [f \in Files |-> IF t.idx[f] = 0 THEN 0 ELSE t.wt[f]], !.ign = 0]
gitClean(t) == [t EXCEPT !.wt = [f \in Files |-> IF t.idx[f] = 0 THEN 0 ELSE t.wt[f]]]
\* -e .ccenv/ -e .ccenv: the paths git clean passes over
CleanExcluded_None(entry) == FALSE
CleanExcluded(entry) == TopOf(entry) \in {ControlDir}
\* What git clean leaves of a file of the control directory: v, or gone.
cleanControl(v, gone) == IF \A entry \in ControlPaths : CleanExcluded(entry) THEN v ELSE gone
cleanWorkspace_CleanIfReset(t) == IF gitResetHard(t) # t THEN gitResetHard(t) ELSE gitClean(t)
cleanWorkspace(t) == gitClean(gitResetHard(t))

\* tar -xzf: every archived path is written over whatever is there.
ExtractTar(tar, t) ==
  [t EXCEPT !.wt = [f \in Files |->
      IF \E e \in tar : e[1] = f THEN (CHOOSE e \in tar : e[1] = f)[2] ELSE t.wt[f]]]
\* git apply checks every path's preimage first and applies all or nothing.
AppliesCached(patch, t) == \A e \in patch : t.idx[e[1]] = e[2]
AppliesWt(patch, t) == \A e \in patch : t.wt[e[1]] = e[2]
PatchedTo(patch, m) ==
  [f \in Files |-> IF \E e \in patch : e[1] = f
                   THEN (CHOOSE e \in patch : e[1] = f)[3] ELSE m[f]]
ApplyCached(patch, t) == [t EXCEPT !.idx = PatchedTo(patch, t.idx)]
ApplyWt(patch, t) == [t EXCEPT !.wt = PatchedTo(patch, t.wt)]

\* restoreEnv(sourceDir, {clean: false}): [ok, tree]; a failing git apply throws
\* and leaves the tree as the earlier steps made it.  A missing directory has
\* no archive and no non-empty patch.
restoreEnv(b, t) ==
  LET src == b
      t1 == ExtractTar(src.tar, t)
      t2 == ApplyCached(src.staged, t1)
      t3 == ApplyWt(src.staged, t2)
      t4 == ApplyWt(src.unstaged, t3)
  IN IF src.staged # {} /\ ~AppliesCached(src.staged, t1) THEN [ok |-> FALSE, tree |-> t1]
     ELSE IF src.staged # {} /\ ~AppliesWt(src.staged, t2) THEN [ok |-> FALSE, tree |-> t2]
     ELSE IF src.unstaged # {} /\ ~AppliesWt(src.unstaged, t3) THEN [ok |-> FALSE, tree |-> t3]
     ELSE [ok |-> TRUE, tree |-> t4]

\* ------------------------------------------------------------------ state
Envs == {"a", "b"}                 \* environments made by `ccenv create`
DEFAULT_HOST_ENV == "default"
SlotNames == Envs \cup {DEFAULT_HOST_ENV}
Procs == 1..NProcs
Flows == {"main", "sig"}           \* main(): the command; sig: the onSignal handler of run
NoState == [activeEnv |-> "", hostEnv |-> "", timestamp |-> -1]  \* no .ccenv/state
NoLock == <<0, "none">>            \* .ccenv/lock is absent
StaleLock == <<0, "stale">>        \* a marker whose creating process has ended
NoIdent == "NoIdent"               \* CCENV_ACTIVE is unset
NoCmd == [op |-> "none", name |-> "a", force |-> FALSE, ident |-> NoIdent]

VARIABLES
  tree,           \* index and work tree of the checkout
  slots,          \* .ccenv/envs/<name>: a bundle or NoSlot
  state,          \* .ccenv/state: NoState or [activeEnv, hostEnv, timestamp]
  lock,           \* .ccenv/lock: NoLock, StaleLock or the <<process, flow>> that created it
  clock,          \* Date.now(), advanced by every writeState
  cmd,            \* per process: the invocation being run
  pc,             \* per process and flow: the await it is at
  st,             \* per process and flow: the local `state` read by readState
  err,            \* per process and flow: the error being thrown, "none" if none
  retried,        \* per process: enterEnv's loop has gone round at least once
  ret,            \* per process: the value enterEnv is about to return
  entered,        \* per process: what enterEnv returned (run's `entered`)
  signalHandled,  \* per process: run's `signalHandled`
  sigCode,        \* per process: the `code` onSignal was called with
  exitCode,       \* per process: child status while running, process status when done
  cmdsLeft, editsLeft,
  hostTree,       \* history: the tree dumped into the host slot by the last swap
  envTree,        \* history: per environment, the tree dumped by its last exit
  loaded,         \* history: the slot whose bundle enterEnv/exitEnv last restored onto
                  \* the tree, "none" from a reset until the restore has completed
  vcs,            \* where HEAD is, the branches there are, and each slot's info.json:
                  \* [pos, refs, info, hostPos]; hostPos is history, the position
                  \* the last swapping enter found
  writer,         \* history: the running process whose enterEnv wrote the record last,
                  \* 0 if none
  codec,          \* the snapshot round trip on its own: [phase, orig]
  touched,        \* history: per process, the invocation has dumped, reset, restored
                  \* or changed the record
  details         \* per process: acquireLock's `details`, NoLock while none was read

vars == <<tree, slots, state, lock, clock, cmd, pc, st, err, retried, ret, entered,
          signalHandled, sigCode, exitCode, cmdsLeft, editsLeft, hostTree, envTree,
          loaded, vcs, writer, codec, touched, details>>
procVars == <<cmd, pc, st, err, retried, ret, entered, signalHandled, sigCode, exitCode>>
snapVars == <<hostTree, envTree, loaded, vcs, writer, codec>>
histVars == <<hostTree, envTree, loaded, vcs, writer, codec, touched, details>>

\* Branches all point at the commit the tree model calls HEAD; a checkout moves
\* HEAD between them or detaches it and leaves index and files alone.
BranchNames == {"main", "topic"}
Detached == "HEAD"                 \* what `git rev-parse --abbrev-ref HEAD` prints then
NoInfo == ""                       \* no info.json
Positions == BranchNames \cup {Detached}
InitVcs(sl) ==
  [pos |-> "main", refs |-> {"main"},
   info |-> [n \in SlotNames |-> IF sl[n].dir THEN "main" ELSE NoInfo],
   hostPos |-> IF sl[DEFAULT_HOST_ENV].dir THEN "main" ELSE NoInfo]
\* writeInfo(targetDir): info.json with the branch (and the commit) HEAD is at
writeInfo(v, n) == [v EXCEPT !.info[n] = v.pos]
\* restoreEnv's first step: git checkout of info.branch, of info.headHash when
\* that fails or the branch is the detached sentinel; without info.json nothing
gitCheckout_Stay(v, n) == v
gitCheckout(v, n) ==
  LET branch == v.info[n]
  IN IF branch = NoInfo THEN v
     ELSE IF branch # Detached /\ branch \in v.refs THEN [v EXCEPT !.pos = branch]
     ELSE [v EXCEPT !.pos = Detached]

NoTree == [idx |-> [f \in Files |-> -1], wt |-> [f \in Files |-> -1], ign |-> -1]
IdleCodec == [phase |-> "off", orig |-> NoTree, ok |-> TRUE]

InitProcs ==
  /\ cmd = [p \in Procs |-> NoCmd]
  /\ pc = [p \in Procs |-> [t \in Flows |-> "idle"]]
  /\ st = [p \in Procs |-> [t \in Flows |-> NoState]]
  /\ err = [p \in Procs |-> [t \in Flows |-> "none"]]
  /\ retried = [p \in Procs |-> FALSE]
  /\ ret = [p \in Procs |-> FALSE]
  /\ entered = [p \in Procs |-> FALSE]
  /\ signalHandled = [p \in Procs |-> FALSE]
  /\ sigCode = [p \in Procs |-> 0]
  /\ exitCode = [p \in Procs |-> 0]
  /\ touched = [p \in Procs |-> FALSE]
  /\ details = [p \in Procs |-> NoLock]

InitStore ==
  /\ slots = [n \in SlotNames |-> IF n \in Envs THEN EmptyBundle ELSE NoSlot]
  /\ state = NoState
  /\ lock = NoLock
  /\ clock = 0
  /\ hostTree = NoTree
  /\ envTree = [n \in Envs |-> NoTree]
  /\ loaded = DEFAULT_HOST_ENV
  /\ writer = 0
  /\ vcs = InitVcs(slots)

\* The store right after `ccenv enter a` in a clean checkout.
InitOccupied ==
  /\ slots = [n \in SlotNames |-> EmptyBundle]
  /\ state = [activeEnv |-> "a", hostEnv |-> DEFAULT_HOST_ENV, timestamp |-> 0]
  /\ lock = NoLock
  /\ clock = 1
  /\ hostTree = CleanTree
  /\ envTree = [n \in Envs |-> NoTree]
  /\ loaded = "a"
  /\ writer = 0
  /\ vcs = InitVcs(slots)

\* A clean checkout with environments a and b created; nothing occupies it, or
\* an earlier `ccenv enter a` has left it occupied by a.
Init ==
  /\ tree = CleanTree
  /\ InitStore \/ InitOccupied
  /\ InitProcs
  /\ cmdsLeft = MaxCmds /\ editsLeft = MaxEdits
  /\ codec = IdleCodec

Alive(p) == pc[p]["main"] \notin {"idle", "done"}
At(p, t, where) == Alive(p) /\ pc[p][t] = where
Goto(p, t, where) == pc' = [pc EXCEPT ![p][t] = where]

\* process.exit(code): the process ends wherever its flows are.
\* Its locals st, ret and retried die with it.
Forget(p) ==
  /\ st' = [st EXCEPT ![p] = [t \in Flows |-> NoState]]
  /\ ret' = [ret EXCEPT ![p] = FALSE]
  /\ retried' = [retried EXCEPT ![p] = FALSE]
Terminate(p, code) ==
  /\ pc' = [pc EXCEPT ![p]["main"] = "done"]
  /\ exitCode' = [exitCode EXCEPT ![p] = code]
  /\ Forget(p)
\* A marker created by a process that has ended stays on disk.
LeftBehind(p, l) == IF l \in ({p} \X Flows) THEN StaleLock ELSE l
\* releaseLock(lockFile): fs.rm of whatever marker is there, errors swallowed.
releaseLock_Noop(l) == l
releaseLock(l) == NoLock

\* ------------------------------------------------------------------ invocations
Begin(p, c, first) ==
  /\ pc[p]["main"] \in {"idle", "done"}
  /\ cmdsLeft > 0
  /\ cmdsLeft' = cmdsLeft - 1
  /\ cmd' = [cmd EXCEPT ![p] = c]
  /\ pc' = [pc EXCEPT ![p] = [main |-> first, sig |-> "idle"]]
  /\ st' = [st EXCEPT ![p] = [t \in Flows |-> NoState]]
  /\ err' = [err EXCEPT ![p] = [t \in Flows |-> "none"]]
  /\ retried' = [retried EXCEPT ![p] = FALSE]
  /\ ret' = [ret EXCEPT ![p] = FALSE]
  /\ entered' = [entered EXCEPT ![p] = FALSE]
  /\ signalHandled' = [signalHandled EXCEPT ![p] = FALSE]
  /\ sigCode' = [sigCode EXCEPT ![p] = 0]
  /\ exitCode' = [exitCode EXCEPT ![p] = 0]
  /\ touched' = [touched EXCEPT ![p] = FALSE]
  /\ details' = [details EXCEPT ![p] = NoLock]
  /\ UNCHANGED <<tree, slots, state, lock, clock, editsLeft, hostTree, envTree, loaded, vcs, codec>>
  \* a record written by an earlier invocation is not this invocation's own
  /\ writer' = IF writer = p THEN 0 ELSE writer

\* ccenv enter <name>
StartEnter(p) ==
  \E n \in Envs : Begin(p, [op |-> "enter", name |-> n, force |-> FALSE, ident |-> NoIdent], "e_start")
\* ccenv exit [--force], with CCENV_ACTIVE as the caller's shell has it
StartExit(p) ==
  \E f \in BOOLEAN, i \in Envs \cup {NoIdent} :
    Begin(p, [op |-> "exit", name |-> "a", force |-> f, ident |-> i], "x_acquire")
\* ccenv run --env <name> <command>: handlers installed, then enterEnv
StartRun(p) ==
  \E n \in Envs : Begin(p, [op |-> "run", name |-> n, force |-> TRUE, ident |-> NoIdent], "e_start")

\* ------------------------------------------------------------------ enterEnv
\* What main() does with an error thrown out of enterEnv: for enter, main().catch
\* exits 1; for run, the finally block skips exitEnv (entered is false) and the
\* error reaches main().catch as well.
EnterThrows_Zero(p) == Terminate(p, 0)
EnterThrows(p) == Terminate(p, 1)

\* fileExists(envDir), before the loop
EStart(p) ==
  /\ At(p, "main", "e_start")
  /\ IF ~slots[cmd[p].name].dir
     THEN EnterThrows(p) /\ lock' = LeftBehind(p, lock)
     ELSE Goto(p, "main", "e_top") /\ UNCHANGED <<exitCode, lock, st, retried, ret>>
  /\ UNCHANGED <<tree, slots, state, clock, cmd, err, entered,
                 signalHandled, sigCode, cmdsLeft, editsLeft, histVars>>

\* Date.now() - start > timeoutMs at the top of the loop: only after a wait.
DeadlineCheckedAt_AlsoBeforeWrite == {"e_top", "e_write"}
DeadlineCheckedAt_Nowhere == {}
DeadlineCheckedAt == {"e_top"}
EDeadline(p) ==
  /\ Alive(p) /\ pc[p]["main"] \in DeadlineCheckedAt
  /\ retried[p]
  /\ EnterThrows(p)
  /\ lock' = LeftBehind(p, lock)
  /\ err' = [err EXCEPT ![p]["main"] = "deadline"]
  /\ UNCHANGED <<tree, slots, state, clock, cmd, entered,
                 signalHandled, sigCode, cmdsLeft, editsLeft, histVars>>

\* acquireLock: fs.open(lockFile, "wx") creates the marker
EAcquire(p) ==
  /\ At(p, "main", "e_top")
  /\ lock = NoLock
  /\ lock' = <<p, "main">>
  /\ Goto(p, "main", "e_read")
  /\ UNCHANGED <<tree, slots, state, clock, cmd, st, err, retried, ret, entered,
                 signalHandled, sigCode, exitCode, cmdsLeft, editsLeft, histVars>>

\* acquireLock: EEXIST past the lock deadline; thrown before enterEnv's try
ELockTimeout(p) ==
  /\ At(p, "main", "e_top")
  /\ lock # NoLock
  /\ EnterThrows(p)
  /\ lock' = LeftBehind(p, lock)
  /\ err' = [err EXCEPT ![p]["main"] = "lock"]
  /\ UNCHANGED <<tree, slots, state, clock, cmd, entered,
                 signalHandled, sigCode, cmdsLeft, editsLeft, histVars>>

\* state.activeEnv === name: already active, return false without a swap
AlreadyActive_Never(s, name) == FALSE
AlreadyActive(s, name) == s.activeEnv = name

\* readState and the three-way branch on it
ERead(p) ==
  /\ At(p, "main", "e_read")
  /\ st' = [st EXCEPT ![p]["main"] = state]
  /\ IF state # NoState
     THEN IF AlreadyActive(state, cmd[p].name)
          THEN Goto(p, "main", "e_release") /\ ret' = [ret EXCEPT ![p] = FALSE]
          ELSE Goto(p, "main", "e_busy") /\ UNCHANGED ret
     ELSE Goto(p, "main", "e_dump") /\ UNCHANGED ret
  /\ UNCHANGED <<tree, slots, state, lock, clock, cmd, err, retried, entered,
                 signalHandled, sigCode, exitCode, cmdsLeft, editsLeft, histVars>>

\* busy: releaseLock inside the try block, then sleep(1000)
EBusyRelease(p) ==
  /\ At(p, "main", "e_busy")
  /\ lock' = releaseLock(lock)
  /\ Goto(p, "main", "e_sleep")
  /\ UNCHANGED <<tree, slots, state, clock, cmd, st, err, retried, ret, entered,
                 signalHandled, sigCode, exitCode, cmdsLeft, editsLeft, histVars>>

EContinue_GivesUp(p) ==
  /\ At(p, "main", "e_sleep")
  /\ lock' = releaseLock(lock)
  /\ ret' = [ret EXCEPT ![p] = FALSE]
  /\ Goto(p, "main", "e_release")
  /\ UNCHANGED <<tree, slots, state, clock, cmd, st, err, retried, entered,
                 signalHandled, sigCode, exitCode, cmdsLeft, editsLeft, histVars>>

\* the sleep is over: `continue` leaves the try block through finally, which
\* calls releaseLock again, whatever marker is there by now
EContinue(p) ==
  /\ At(p, "main", "e_sleep")
  /\ lock' = releaseLock(lock)
  /\ retried' = [retried EXCEPT ![p] = TRUE]
  /\ Goto(p, "main", "e_top")
  /\ UNCHANGED <<tree, slots, state, clock, cmd, st, err, ret, entered,
                 signalHandled, sigCode, exitCode, cmdsLeft, editsLeft, histVars>>

EDump_Skipped(p) ==
  /\ At(p, "main", "e_dump")
  /\ Goto(p, "main", "e_clean")
  /\ touched' = [touched EXCEPT ![p] = TRUE]
  /\ UNCHANGED <<tree, slots, state, lock, clock, cmd, st, err, retried, ret, entered,
                 signalHandled, sigCode, exitCode, cmdsLeft, editsLeft, snapVars, details>>

\* ensureEnvDir(DEFAULT_HOST_ENV); dumpEnv(hostDir)
EDump(p) ==
  /\ At(p, "main", "e_dump")
  /\ slots' = [slots EXCEPT ![DEFAULT_HOST_ENV] = dumpEnv(tree, slots[DEFAULT_HOST_ENV])]
  /\ hostTree' = tree
  /\ vcs' = [writeInfo(vcs, DEFAULT_HOST_ENV) EXCEPT !.hostPos = vcs.pos]
  /\ Goto(p, "main", "e_clean")
  /\ UNCHANGED <<tree, state, lock, clock, cmd, st, err, retried, ret, entered,
                 signalHandled, sigCode, exitCode, cmdsLeft, editsLeft, envTree, loaded, writer, codec, details>>
  /\ touched' = [touched EXCEPT ![p] = TRUE]

EClean(p) ==
  /\ At(p, "main", "e_clean")
  /\ tree' = cleanWorkspace(tree)
  /\ slots' = cleanControl(slots, [n \in SlotNames |-> NoSlot])
  /\ state' = cleanControl(state, NoState)
  /\ lock' = cleanControl(lock, NoLock)
  /\ Goto(p, "main", "e_restore")
  /\ UNCHANGED <<clock, cmd, st, err, retried, ret, entered,
                 signalHandled, sigCode, exitCode, cmdsLeft, editsLeft, hostTree, envTree, vcs, writer, codec, details>>
  /\ touched' = [touched EXCEPT ![p] = TRUE]
  /\ loaded' = "none"

\* restoreEnv(envDir, {clean: false}); a throw goes through catch to finally
ERestore(p) ==
  /\ At(p, "main", "e_restore")
  /\ vcs' = gitCheckout(vcs, cmd[p].name)
  /\ LET r == restoreEnv(slots[cmd[p].name], tree)
     IN /\ tree' = r.tree
        /\ IF r.ok
           THEN Goto(p, "main", "e_write") /\ UNCHANGED err
           ELSE Goto(p, "main", "e_release") /\ err' = [err EXCEPT ![p]["main"] = "restore"]
  /\ UNCHANGED <<slots, state, lock, clock, cmd, st, retried, ret, entered,
                 signalHandled, sigCode, exitCode, cmdsLeft, editsLeft, hostTree, envTree, writer, codec, details>>
  /\ touched' = [touched EXCEPT ![p] = TRUE]
  /\ loaded' = IF restoreEnv(slots[cmd[p].name], tree).ok THEN cmd[p].name ELSE "none"

\* writeState(STATE_FILE, {activeEnv: name, hostEnv: "default", timestamp})
EWrite(p) ==
  /\ At(p, "main", "e_write")
  /\ state' = [activeEnv |-> cmd[p].name, hostEnv |-> DEFAULT_HOST_ENV, timestamp |-> clock]
  /\ clock' = clock + 1
  /\ ret' = [ret EXCEPT ![p] = TRUE]
  /\ Goto(p, "main", "e_release")
  /\ UNCHANGED <<tree, slots, lock, cmd, st, err, retried, entered,
                 signalHandled, sigCode, exitCode, cmdsLeft, editsLeft, hostTree, envTree, loaded, vcs, codec, details>>
  /\ touched' = [touched EXCEPT ![p] = TRUE]
  /\ writer' = p

\* finally { releaseLock }, then enterEnv returns or rethrows to main():
\* enter exits 0 or 1; run stores the result in `entered` and spawns the child.
ERelease(p) ==
  /\ At(p, "main", "e_release")
  /\ lock' = releaseLock(lock)
  /\ IF err[p]["main"] # "none"
     THEN EnterThrows(p) /\ UNCHANGED entered
     ELSE IF cmd[p].op = "run"
          THEN /\ entered' = [entered EXCEPT ![p] = ret[p]]
               /\ Goto(p, "main", "r_child")
               /\ UNCHANGED <<exitCode, st, retried, ret>>
          ELSE Terminate(p, 0) /\ UNCHANGED entered
  /\ UNCHANGED <<tree, slots, state, clock, cmd, err,
                 signalHandled, sigCode, cmdsLeft, editsLeft, histVars>>

\* ------------------------------------------------------------------ exitEnv
\* exitEnv runs in main() (exit; run's finally) and in run's signal handler.
Force(p, t) == IF t = "sig" \/ cmd[p].op = "run" THEN TRUE ELSE cmd[p].force
\* What the caller does when exitEnv returns (e = "none") or throws:
\*  onSignal: catch {} and process.exit(code);
\*  exit: main() returns (status 0) or main().catch exits 1;
\*  run: process.off, process.exit(exitCode), or the error reaches main().catch.
StatusAfterExit_Swallow(p, t, e) ==
  IF t = "sig" THEN sigCode[p] ELSE IF cmd[p].op = "run" THEN exitCode[p] ELSE 0
StatusAfterExit(p, t, e) ==
  IF t = "sig" THEN sigCode[p]
  ELSE IF e # "none" THEN 1
  ELSE IF cmd[p].op = "run" THEN exitCode[p] ELSE 0
ExitReturns(p, t, e) ==
  /\ pc' = [pc EXCEPT ![p] = [main |-> "done", sig |-> IF t = "sig" THEN "x_returned" ELSE @["sig"]]]
  /\ exitCode' = [exitCode EXCEPT ![p] = StatusAfterExit(p, t, e)]
  /\ Forget(p)

\* acquireLock(LOCK_FILE), before the try block
XAcquire(p, t) ==
  /\ At(p, t, "x_acquire")
  /\ lock = NoLock
  /\ lock' = <<p, t>>
  /\ Goto(p, t, "x_read")
  /\ UNCHANGED <<tree, slots, state, clock, cmd, st, err, retried, ret, entered,
                 signalHandled, sigCode, exitCode, cmdsLeft, editsLeft, histVars>>

\* acquireLock: EEXIST past the lock deadline; no finally is in force yet
XLockTimeout(p, t) ==
  /\ At(p, t, "x_acquire")
  /\ lock # NoLock
  /\ err' = [err EXCEPT ![p][t] = "lock"]
  /\ ExitReturns(p, t, "lock")
  /\ lock' = LeftBehind(p, lock)
  /\ UNCHANGED <<tree, slots, state, clock, cmd, entered,
                 signalHandled, sigCode, cmdsLeft, editsLeft, histVars>>

\* !opts.force and process.env.CCENV_ACTIVE !== state.activeEnv: throw
IdentityRejected_Never(force, ident, s) == FALSE
IdentityRejected(force, ident, s) == ~force /\ ident # s.activeEnv

\* readState; no record: return; identity check unless forced
XRead(p, t) ==
  /\ At(p, t, "x_read")
  /\ st' = [st EXCEPT ![p][t] = state]
  /\ IF state = NoState
     THEN Goto(p, t, "x_release") /\ UNCHANGED err
     ELSE IF IdentityRejected(Force(p, t), cmd[p].ident, state)
          THEN Goto(p, t, "x_release") /\ err' = [err EXCEPT ![p][t] = "identity"]
          ELSE Goto(p, t, "x_dump") /\ UNCHANGED err
  /\ UNCHANGED <<tree, slots, state, lock, clock, cmd, retried, ret, entered,
                 signalHandled, sigCode, exitCode, cmdsLeft, editsLeft, histVars>>

\* ensureEnvDir(state.activeEnv); dumpEnv(envDir)
XDump(p, t) ==
  /\ At(p, t, "x_dump")
  /\ LET n == st[p][t].activeEnv
     IN /\ slots' = [slots EXCEPT ![n] = dumpEnv(tree, slots[n])]
        /\ envTree' = [envTree EXCEPT ![n] = tree]
        /\ vcs' = writeInfo(vcs, n)
  /\ Goto(p, t, "x_clean")
  /\ UNCHANGED <<tree, state, lock, clock, cmd, st, err, retried, ret, entered,
                 signalHandled, sigCode, exitCode, cmdsLeft, editsLeft, hostTree, loaded, writer, codec, details>>
  /\ touched' = [touched EXCEPT ![p] = TRUE]

XClean(p, t) ==
  /\ At(p, t, "x_clean")
  /\ tree' = cleanWorkspace(tree)
  /\ slots' = cleanControl(slots, [n \in SlotNames |-> NoSlot])
  /\ state' = cleanControl(state, NoState)
  /\ lock' = cleanControl(lock, NoLock)
  /\ Goto(p, t, "x_restore")
  /\ UNCHANGED <<clock, cmd, st, err, retried, ret, entered,
                 signalHandled, sigCode, exitCode, cmdsLeft, editsLeft, hostTree, envTree, vcs, writer, codec, details>>
  /\ touched' = [touched EXCEPT ![p] = TRUE]
  /\ loaded' = "none"

\* fileExists(hostDir) or throw; restoreEnv(hostDir, {clean: false})
XRestore(p, t) ==
  /\ At(p, t, "x_restore")
  /\ LET host == slots[st[p][t].hostEnv]
         r == restoreEnv(host, tree)
     IN IF ~host.dir
        THEN /\ err' = [err EXCEPT ![p][t] = "nohost"]
             /\ UNCHANGED vcs
             /\ Goto(p, t, "x_release")
             /\ UNCHANGED tree
        ELSE /\ tree' = r.tree
             /\ vcs' = gitCheckout(vcs, st[p][t].hostEnv)
             /\ IF r.ok
                THEN Goto(p, t, "x_rm") /\ UNCHANGED err
                ELSE Goto(p, t, "x_release") /\ err' = [err EXCEPT ![p][t] = "restore"]
  /\ UNCHANGED <<slots, state, lock, clock, cmd, st, retried, ret, entered,
                 signalHandled, sigCode, exitCode, cmdsLeft, editsLeft, hostTree, envTree, writer, codec, details>>
  /\ touched' = [touched EXCEPT ![p] = TRUE]
  /\ loaded' = LET host == slots[st[p][t].hostEnv]
               IN IF host.dir /\ restoreEnv(host, tree).ok THEN st[p][t].hostEnv ELSE "none"

\* fs.rm(STATE_FILE): throws when the file is not there
XRm(p, t) ==
  /\ At(p, t, "x_rm")
  /\ state' = NoState
  /\ err' = [err EXCEPT ![p][t] = IF state = NoState THEN "rm" ELSE "none"]
  /\ Goto(p, t, "x_release")
  /\ UNCHANGED <<tree, slots, lock, clock, cmd, st, retried, ret, entered,
                 signalHandled, sigCode, exitCode, cmdsLeft, editsLeft, snapVars, details>>
  /\ touched' = [touched EXCEPT ![p] = TRUE]

\* finally { releaseLock }, then exitEnv returns or rethrows to its caller
XRelease(p, t) ==
  /\ At(p, t, "x_release")
  /\ lock' = releaseLock(lock)
  /\ ExitReturns(p, t, err[p][t])
  /\ UNCHANGED <<tree, slots, state, clock, cmd, err, entered,
                 signalHandled, sigCode, cmdsLeft, editsLeft, histVars>>

\* ------------------------------------------------------------------ run
ChildStatus == {0, 1}
\* runCommand resolves with the child's status; finally: exitEnv({force: true})
\* if entered and no signal was handled, else process.off and
\* process.exit(exitCode).
CleanupDue_Always(e, s) == ~s
CleanupDue(e, s) == e /\ ~s
RChildExit(p) ==
  /\ At(p, "main", "r_child")
  /\ \E c \in ChildStatus :
       IF CleanupDue(entered[p], signalHandled[p])
       THEN /\ exitCode' = [exitCode EXCEPT ![p] = c]
            /\ Goto(p, "main", "x_acquire")
            /\ UNCHANGED <<lock, st, retried, ret>>
       ELSE Terminate(p, c) /\ lock' = LeftBehind(p, lock)
  /\ UNCHANGED <<tree, slots, state, clock, cmd, err, entered,
                 signalHandled, sigCode, cmdsLeft, editsLeft, histVars>>

SignalCodes == {130, 143}          \* SIGINT, SIGTERM
\* onSignal(signal, code) of a run whose handlers are installed: the first
\* signal sets signalHandled; entered: exitEnv({force: true}) in the handler,
\* not entered: process.exit(code) at once.
OnSignal(p) ==
  /\ Alive(p)
  /\ cmd[p].op = "run"
  /\ ~signalHandled[p]
  /\ signalHandled' = [signalHandled EXCEPT ![p] = TRUE]
  /\ \E c \in SignalCodes :
       /\ sigCode' = [sigCode EXCEPT ![p] = c]
       /\ IF entered[p]
          THEN Goto(p, "sig", "x_acquire") /\ UNCHANGED <<exitCode, lock, st, retried, ret>>
          ELSE Terminate(p, c) /\ lock' = LeftBehind(p, lock)
  /\ UNCHANGED <<tree, slots, state, clock, cmd, err, entered,
                 cmdsLeft, editsLeft, histVars>>

\* ------------------------------------------------------------------ acquireLock
\* storage.ts's acquireLock step by step, as a caller that acquires and then
\* releases (the storage unit test, and the first and last step of exitEnv).
\* A marker <<p, "created">> exists but its payload is not written yet;
\* <<p, "main">> carries p's pid, hostname and timestamp.
UnknownDetails == <<0, "unknown">>   \* details = "unknown": the marker could not be read
EmptyDetails == <<0, "empty">>       \* details = "": the marker had no payload yet
StartLock(p) == Begin(p, [NoCmd EXCEPT !.op = "lock"], "l_open")

\* fs.open(lockFile, "wx"): creates the marker, or EEXIST; past the deadline
\* (only after a sleep) the EEXIST branch goes on to read the marker.
openWx_Overwrite(l) == TRUE
openWx(l) == l = NoLock
LOpen(p) ==
  /\ At(p, "main", "l_open")
  /\ IF openWx(lock)
     THEN lock' = <<p, "created">> /\ Goto(p, "main", "l_write")
     ELSE /\ UNCHANGED lock
          /\ \/ Goto(p, "main", "l_sleep")
             \/ retried[p] /\ Goto(p, "main", "l_readfile")
  /\ UNCHANGED <<tree, slots, state, clock, cmd, st, err, retried, ret, entered,
                 signalHandled, sigCode, exitCode, cmdsLeft, editsLeft, histVars>>

\* handle.writeFile(payload); handle.close(); return
LWrite(p) ==
  /\ At(p, "main", "l_write")
  /\ lock' = IF lock = <<p, "created">> THEN <<p, "main">> ELSE lock
  /\ Goto(p, "main", "l_held")
  /\ UNCHANGED <<tree, slots, state, clock, cmd, st, err, retried, ret, entered,
                 signalHandled, sigCode, exitCode, cmdsLeft, editsLeft, histVars>>

\* sleep(100); continue
LSleep(p) ==
  /\ At(p, "main", "l_sleep")
  /\ retried' = [retried EXCEPT ![p] = TRUE]
  /\ Goto(p, "main", "l_open")
  /\ UNCHANGED <<tree, slots, state, lock, clock, cmd, st, err, ret, entered,
                 signalHandled, sigCode, exitCode, cmdsLeft, editsLeft, histVars>>

\* details = await Bun.file(lockFile).text(), "unknown" if that throws
readLockFile(l) ==
  IF l = NoLock THEN UnknownDetails
  ELSE IF l[2] = "created" THEN EmptyDetails
  ELSE l
\* throw new Error(`Lock timeout ... Held by: ${details}`)
LReadFile(p) ==
  /\ At(p, "main", "l_readfile")
  /\ details' = [details EXCEPT ![p] = readLockFile(lock)]
  /\ err' = [err EXCEPT ![p]["main"] = "lock"]
  /\ Terminate(p, 1)
  /\ UNCHANGED <<tree, slots, state, lock, clock, cmd, entered,
                 signalHandled, sigCode, cmdsLeft, editsLeft, snapVars, touched>>

\* releaseLock(lockFile) by the caller that acquired
LRelease(p) ==
  /\ At(p, "main", "l_held")
  /\ lock' = releaseLock(lock)
  /\ Terminate(p, 0)
  /\ UNCHANGED <<tree, slots, state, clock, cmd, err, entered,
                 signalHandled, sigCode, cmdsLeft, editsLeft, histVars>>

\* ------------------------------------------------------------------ delete, list, status
\* ccenv delete <name> | ccenv list | ccenv status: none of them takes the lock
StartDelete(p) ==
  \E n \in Envs : Begin(p, [op |-> "delete", name |-> n, force |-> FALSE, ident |-> NoIdent], "d_start")
StartList(p) == Begin(p, [NoCmd EXCEPT !.op = "list"], "ls_dir")
StartStatus(p) == Begin(p, [NoCmd EXCEPT !.op = "status"], "s_read")

\* deleteEnv: fileExists(envDir) or throw "Environment not found"
DStart(p) ==
  /\ At(p, "main", "d_start")
  /\ IF ~slots[cmd[p].name].dir
     THEN /\ err' = [err EXCEPT ![p]["main"] = "notfound"]
          /\ Terminate(p, 1)
     ELSE Goto(p, "main", "d_read") /\ UNCHANGED <<err, exitCode, st, retried, ret>>
  /\ UNCHANGED <<tree, slots, state, lock, clock, cmd, entered,
                 signalHandled, sigCode, cmdsLeft, editsLeft, histVars>>

\* deleteEnv: readState; state?.activeEnv === name: throw "Cannot delete active environment"
DRead(p) ==
  /\ At(p, "main", "d_read")
  /\ IF state.activeEnv = cmd[p].name
     THEN /\ err' = [err EXCEPT ![p]["main"] = "active"]
          /\ Terminate(p, 1)
     ELSE /\ Goto(p, "main", "d_rm")
          /\ st' = [st EXCEPT ![p]["main"] = state]
          /\ UNCHANGED <<err, exitCode, retried, ret>>
  /\ UNCHANGED <<tree, slots, state, lock, clock, cmd, entered,
                 signalHandled, sigCode, cmdsLeft, editsLeft, histVars>>

\* deleteEnv: fs.rm(envDir, {recursive, force})
DRm(p) ==
  /\ At(p, "main", "d_rm")
  /\ slots' = [slots EXCEPT ![cmd[p].name] = NoSlot]
  /\ Terminate(p, 0)
  /\ UNCHANGED <<tree, state, lock, clock, cmd, err, entered,
                 signalHandled, sigCode, cmdsLeft, editsLeft, hostTree, envTree, loaded, writer, codec, touched, details>>
  /\ vcs' = [vcs EXCEPT !.info[cmd[p].name] = NoInfo]

\* listEnvs: fs.readdir(ENVS_DIR)
LsDir(p) ==
  /\ At(p, "main", "ls_dir")
  /\ Goto(p, "main", "ls_read")
  /\ UNCHANGED <<tree, slots, state, lock, clock, cmd, st, err, retried, ret, entered,
                 signalHandled, sigCode, exitCode, cmdsLeft, editsLeft, histVars>>

\* listEnvs: readState, then the listing is printed; printStatus: readState,
\* then the status is printed
ReadAndPrint(p, where) ==
  /\ At(p, "main", where)
  /\ Terminate(p, 0)
  /\ UNCHANGED <<tree, slots, state, lock, clock, cmd, err, entered,
                 signalHandled, sigCode, cmdsLeft, editsLeft, histVars>>
LsRead(p) == ReadAndPrint(p, "ls_read")
SRead(p) == ReadAndPrint(p, "s_read")

\* ------------------------------------------------------------------ create, apply
\* ccenv create <name> [--empty]; the command's force field carries --empty
StartCreate(p) ==
  \E n \in SlotNames, empty \in BOOLEAN :
    Begin(p, [op |-> "create", name |-> n, force |-> empty, ident |-> NoIdent], "c_start")
\* createEnv: fileExists(envDir): throw "Environment already exists"
CStart(p) ==
  /\ At(p, "main", "c_start")
  /\ IF slots[cmd[p].name].dir
     THEN /\ err' = [err EXCEPT ![p]["main"] = "exists"]
          /\ Terminate(p, 1)
     ELSE Goto(p, "main", "c_write") /\ UNCHANGED <<err, exitCode, st, retried, ret>>
  /\ UNCHANGED <<tree, slots, state, lock, clock, cmd, entered,
                 signalHandled, sigCode, cmdsLeft, editsLeft, histVars>>
\* createEnv: mkdir, two empty patches and info.json, with --empty and without
createdBundle_Inherit(empty, t) == IF empty THEN EmptyBundle ELSE dumpEnv(t, NoSlot)
createdBundle(empty, t) == IF empty THEN EmptyBundle ELSE EmptyBundle
CWrite(p) ==
  /\ At(p, "main", "c_write")
  /\ slots' = [slots EXCEPT ![cmd[p].name] = createdBundle(cmd[p].force, tree)]
  /\ Terminate(p, 0)
  /\ UNCHANGED <<tree, state, lock, clock, cmd, err, entered,
                 signalHandled, sigCode, cmdsLeft, editsLeft, hostTree, envTree, loaded, writer, codec, touched, details>>
  /\ vcs' = writeInfo(vcs, cmd[p].name)

\* ccenv apply <name>
StartApply(p) ==
  \E n \in Envs : Begin(p, [op |-> "apply", name |-> n, force |-> FALSE, ident |-> NoIdent], "a_start")
\* applyEnv: fileExists(envDir) or throw "Environment not found"
AStart(p) ==
  /\ At(p, "main", "a_start")
  /\ IF ~slots[cmd[p].name].dir
     THEN /\ err' = [err EXCEPT ![p]["main"] = "notfound"]
          /\ Terminate(p, 1)
     ELSE Goto(p, "main", "a_restore") /\ UNCHANGED <<err, exitCode, st, retried, ret>>
  /\ UNCHANGED <<tree, slots, state, lock, clock, cmd, entered,
                 signalHandled, sigCode, cmdsLeft, editsLeft, histVars>>
\* applyEnv: restoreEnv(envDir, {clean: false})
ApplyClean_True == TRUE
ApplyClean == FALSE
ARestore(p) ==
  /\ At(p, "main", "a_restore")
  /\ LET r == restoreEnv(slots[cmd[p].name], IF ApplyClean THEN cleanWorkspace(tree) ELSE tree)
     IN /\ tree' = r.tree
        /\ err' = [err EXCEPT ![p]["main"] = IF r.ok THEN "none" ELSE "restore"]
        /\ Terminate(p, IF r.ok THEN 0 ELSE 1)
  /\ touched' = [touched EXCEPT ![p] = TRUE]
  /\ UNCHANGED <<slots, state, lock, clock, cmd, entered,
                 signalHandled, sigCode, cmdsLeft, editsLeft, hostTree, envTree, loaded, writer, codec, details>>
  /\ vcs' = gitCheckout(vcs, cmd[p].name)

\* ------------------------------------------------------------------ edits
\* No invocation is inside enterEnv or exitEnv: the tree is edited by the user
\* between invocations or by the child command of a run.
Quiet == \A p \in Procs : \A t \in Flows :
           ~Alive(p) \/ pc[p][t] \in {"idle", "r_child", "x_returned"}
\* write or delete a file
WriteResults(t) == {[t EXCEPT !.wt[f] = c] : f \in Files, c \in Content}
\* write or delete a file; git add <file>; git rm --cached <file>
EditResults(t) ==
  WriteResults(t)
    \cup {[t EXCEPT !.idx[f] = t.wt[f]] : f \in Files}
    \cup {[t EXCEPT !.idx[f] = 0] : f \in Files}
EditTo(results) ==
  /\ editsLeft > 0
  /\ \E t2 \in results \ {tree} : tree' = t2
  /\ editsLeft' = editsLeft - 1
  /\ UNCHANGED <<slots, state, lock, clock, procVars, cmdsLeft, histVars>>
\* the user edits between invocations
Edit == Quiet /\ EditTo(EditResults(tree))
\* the child command of a run writes a file while it runs (sh -c "echo env > run.txt")
ChildWrites(t) == {[t EXCEPT !.wt[f] = MaxContent] : f \in Files}
ChildEdit(p) == At(p, "main", "r_child") /\ EditTo(ChildWrites(tree))

\* ------------------------------------------------------------------ specifications
EnterSteps(p) ==
  \/ EStart(p) \/ EDeadline(p) \/ EAcquire(p) \/ ELockTimeout(p) \/ ERead(p)
  \/ EBusyRelease(p) \/ EContinue(p) \/ EDump(p) \/ EClean(p) \/ ERestore(p)
  \/ EWrite(p) \/ ERelease(p)
ExitSteps(p, t) ==
  \/ XAcquire(p, t) \/ XLockTimeout(p, t) \/ XRead(p, t) \/ XDump(p, t)
  \/ XClean(p, t) \/ XRestore(p, t) \/ XRm(p, t) \/ XRelease(p, t)

\* enter and exit invocations of independent processes, and edits in between
Next ==
  \/ \E p \in Procs :
       \/ StartEnter(p) \/ StartExit(p)
       \/ EnterSteps(p)
       \/ ExitSteps(p, "main")
  \/ Edit

Spec == Init /\ [][Next]_vars

\* run invocations of independent processes, their children and signals
InitRun ==
  /\ tree = CleanTree
  /\ InitStore /\ InitProcs
  /\ cmdsLeft = MaxRuns /\ editsLeft = MaxEdits
  /\ codec = IdleCodec

NextRun ==
  \/ \E p \in Procs :
       \/ StartRun(p)
       \/ EnterSteps(p)
       \/ \E t \in Flows : ExitSteps(p, t)
       \/ RChildExit(p) \/ OnSignal(p) \/ ChildEdit(p)

SpecRun == InitRun /\ [][NextRun]_vars

\* one session issuing enter and exit one after the other, from any tree
InitSeq ==
  /\ tree \in Trees
  /\ InitStore /\ InitProcs
  /\ cmdsLeft = SeqCmds /\ editsLeft = SeqEdits
  /\ codec = IdleCodec

NextSeq ==
  \/ StartEnter(1) \/ StartExit(1)
  \/ EStart(1) \/ EDeadline(1) \/ EAcquire(1) \/ ERead(1)
  \/ EBusyRelease(1) \/ EContinue(1) \/ EDump(1) \/ EClean(1) \/ ERestore(1)
  \/ EWrite(1) \/ ERelease(1)
  \/ XAcquire(1, "main") \/ XRead(1, "main") \/ XDump(1, "main")
  \/ XClean(1, "main") \/ XRestore(1, "main") \/ XRm(1, "main") \/ XRelease(1, "main")
  \/ Edit

SpecSeq == InitSeq /\ [][NextSeq]_vars

\* one session issuing enter and run one after the other, from any tree, with
\* the child's writes and signals to the run
InitRunSeq ==
  /\ tree \in Trees
  /\ InitStore /\ InitProcs
  /\ cmdsLeft = RunSeqCmds /\ editsLeft = SeqEdits
  /\ codec = IdleCodec

NextRunSeq ==
  \/ StartEnter(1) \/ StartRun(1)
  \/ EStart(1) \/ EDeadline(1) \/ EAcquire(1) \/ ERead(1)
  \/ EBusyRelease(1) \/ EContinue(1) \/ EDump(1) \/ EClean(1) \/ ERestore(1)
  \/ EWrite(1) \/ ERelease(1)
  \/ \E t \in Flows :
       \/ XAcquire(1, t) \/ XRead(1, t) \/ XDump(1, t)
       \/ XClean(1, t) \/ XRestore(1, t) \/ XRm(1, t) \/ XRelease(1, t)
  \/ RChildExit(1) \/ OnSignal(1) \/ ChildEdit(1)

SpecRunSeq == InitRunSeq /\ [][NextRunSeq]_vars

\* enter, exit, delete, list and status invocations of independent processes
InitAdmin ==
  /\ tree = CleanTree
  /\ InitStore \/ InitOccupied
  /\ InitProcs
  /\ cmdsLeft = AdminCmds /\ editsLeft = 0
  /\ codec = IdleCodec

NextAdmin ==
  \E p \in Procs :
    \/ StartEnter(p) \/ StartExit(p) \/ StartDelete(p) \/ StartList(p) \/ StartStatus(p)
    \/ EnterSteps(p)
    \/ ExitSteps(p, "main")
    \/ DStart(p) \/ DRead(p) \/ DRm(p) \/ LsDir(p) \/ LsRead(p) \/ SRead(p)

SpecAdmin == InitAdmin /\ [][NextAdmin]_vars

\* the snapshot codec on its own: dumpEnv into a slot, cleanWorkspace,
\* restoreEnv of the same slot, from any tree and any earlier content of the slot
CodecSlot == "a"
InitCodec ==
  /\ tree \in Trees
  /\ InitProcs
  /\ \E t0 \in Trees :
       slots = [n \in SlotNames |-> IF n = CodecSlot THEN dumpEnv(t0, EmptyBundle) ELSE NoSlot]
  /\ state = NoState /\ lock = NoLock /\ clock = 0
  /\ hostTree = NoTree /\ envTree = [n \in Envs |-> NoTree]
  /\ loaded = DEFAULT_HOST_ENV
  /\ writer = 0
  /\ vcs = InitVcs(slots)
  /\ cmdsLeft = 0 /\ editsLeft = 0
  /\ codec = [phase |-> "start", orig |-> tree, ok |-> TRUE]

CodecStep(from, to) ==
  /\ codec.phase = from
  /\ codec' = [codec EXCEPT !.phase = to]
CodecDump ==
  /\ CodecStep("start", "dumped")
  /\ slots' = [slots EXCEPT ![CodecSlot] = dumpEnv(tree, slots[CodecSlot])]
  /\ UNCHANGED <<tree, state, lock, clock, procVars, cmdsLeft, editsLeft, hostTree, envTree, loaded, writer,
                 touched, details>>
  /\ vcs' = writeInfo(vcs, CodecSlot)
CodecClean ==
  /\ CodecStep("dumped", "cleaned")
  /\ tree' = cleanWorkspace(tree)
  /\ slots' = cleanControl(slots, [n \in SlotNames |-> NoSlot])
  /\ state' = cleanControl(state, NoState)
  /\ lock' = cleanControl(lock, NoLock)
  /\ UNCHANGED <<clock, procVars, cmdsLeft, editsLeft, hostTree, envTree, loaded, vcs, writer, touched, details>>
CodecRestore ==
  /\ codec.phase = "cleaned"
  /\ LET r == restoreEnv(slots[CodecSlot], tree)
     IN /\ tree' = r.tree
        /\ codec' = [codec EXCEPT !.phase = "restored", !.ok = r.ok]
  /\ UNCHANGED <<slots, state, lock, clock, procVars, cmdsLeft, editsLeft, hostTree, envTree, loaded, writer,
                 touched, details>>
  /\ vcs' = gitCheckout(vcs, CodecSlot)

NextCodec == CodecDump \/ CodecClean \/ CodecRestore

SpecCodec == InitCodec /\ [][NextCodec]_vars

\* Processes that only acquire and release the lock.
InitLock ==
  /\ tree = CleanTree
  /\ InitStore
  /\ InitProcs
  /\ cmdsLeft = LockCmds /\ editsLeft = 0
  /\ codec = IdleCodec
NextLock ==
  \E p \in Procs :
    \/ StartLock(p)
    \/ LOpen(p)
    \/ LWrite(p)
    \/ LSleep(p)
    \/ LReadFile(p)
    \/ LRelease(p)
SpecLock == InitLock /\ [][NextLock]_vars


\* One session issuing enter and exit, from any tree, where environment a has
\* been used before: its slot holds what an earlier exit dumped from a tree
\* that differed from HEAD in file.txt.
UsedTrees == {t \in Trees : \A f \in Files \ {"file.txt"} : t.idx[f] = 0 /\ t.wt[f] = 0}
InitUsed ==
  /\ tree \in Trees
  /\ InitProcs
  /\ \E t0 \in UsedTrees :
       slots = [n \in SlotNames |-> IF n = "a" THEN dumpEnv(t0, EmptyBundle)
                                    ELSE IF n \in Envs THEN EmptyBundle ELSE NoSlot]
  /\ state = NoState /\ lock = NoLock /\ clock = 0
  /\ hostTree = NoTree /\ envTree = [n \in Envs |-> NoTree]
  /\ loaded = DEFAULT_HOST_ENV
  /\ writer = 0
  /\ vcs = InitVcs(slots)
  /\ cmdsLeft = UsedCmds /\ editsLeft = 0
  /\ codec = IdleCodec
NextUsed ==
  \/ StartEnter(1) \/ StartExit(1)
  \/ EStart(1) \/ EDeadline(1) \/ EAcquire(1) \/ ERead(1)
  \/ EBusyRelease(1) \/ EContinue(1) \/ EDump(1) \/ EClean(1) \/ ERestore(1)
  \/ EWrite(1) \/ ERelease(1)
  \/ XAcquire(1, "main") \/ XRead(1, "main") \/ XDump(1, "main")
  \/ XClean(1, "main") \/ XRestore(1, "main") \/ XRm(1, "main") \/ XRelease(1, "main")
SpecUsed == InitUsed /\ [][NextUsed]_vars

\* dumpEnv, cleanWorkspace, cleanWorkspace again or restoreEnv on their own,
\* under the lock, from any tree with or without an ignored file, into a slot
\* that an earlier dumpEnv has filled.
InitPrim ==
  /\ tree \in AllTrees
  /\ InitProcs
  /\ \E t0 \in {t \in Trees : t.idx["new.txt"] = 0 /\ t.wt["new.txt"] = 0} :
       slots = [n \in SlotNames |-> IF n = CodecSlot THEN dumpEnv(t0, EmptyBundle) ELSE NoSlot]
  /\ state = NoState /\ lock = <<1, "main">> /\ clock = 0
  /\ hostTree = NoTree /\ envTree = [n \in Envs |-> NoTree]
  /\ loaded = DEFAULT_HOST_ENV
  /\ writer = 0
  /\ vcs = InitVcs(slots)
  /\ cmdsLeft = 0 /\ editsLeft = 0
  /\ codec = [phase |-> "start", orig |-> tree, ok |-> TRUE]
CleanAgain ==
  /\ CodecStep("cleaned", "recleaned")
  /\ tree' = cleanWorkspace(tree)
  /\ slots' = cleanControl(slots, [n \in SlotNames |-> NoSlot])
  /\ state' = cleanControl(state, NoState)
  /\ lock' = cleanControl(lock, NoLock)
  /\ UNCHANGED <<clock, procVars, cmdsLeft, editsLeft, hostTree, envTree, loaded, vcs, writer, touched, details>>
NextPrim == CodecDump \/ CodecClean \/ CleanAgain \/ CodecRestore
SpecPrim == InitPrim /\ [][NextPrim]_vars

\* One session on a fresh checkout in any state of file.txt: environments are
\* created, entered, exited and deleted under any name, the host slot's name
\* included.
InitSlots ==
  /\ tree \in UsedTrees
  /\ InitProcs
  /\ slots = [n \in SlotNames |-> NoSlot]
  /\ state = NoState /\ lock = NoLock /\ clock = 0
  /\ hostTree = NoTree /\ envTree = [n \in Envs |-> NoTree]
  /\ loaded = DEFAULT_HOST_ENV
  /\ writer = 0
  /\ vcs = InitVcs(slots)
  /\ cmdsLeft = SlotsCmds /\ editsLeft = 0
  /\ codec = IdleCodec
NextSlots ==
  \/ StartCreate(1) \/ CStart(1) \/ CWrite(1)
  \/ \E n \in SlotNames :
       Begin(1, [op |-> "enter", name |-> n, force |-> FALSE, ident |-> NoIdent], "e_start")
  \/ Begin(1, [op |-> "exit", name |-> "a", force |-> TRUE, ident |-> NoIdent], "x_acquire")
  \/ \E n \in SlotNames :
       Begin(1, [op |-> "delete", name |-> n, force |-> FALSE, ident |-> NoIdent], "d_start")
  \/ DStart(1) \/ DRead(1) \/ DRm(1)
  \/ EStart(1) \/ EDeadline(1) \/ EAcquire(1) \/ ERead(1)
  \/ EBusyRelease(1) \/ EContinue(1) \/ EDump(1) \/ EClean(1) \/ ERestore(1)
  \/ EWrite(1) \/ ERelease(1)
  \/ XAcquire(1, "main") \/ XRead(1, "main") \/ XDump(1, "main")
  \/ XClean(1, "main") \/ XRestore(1, "main") \/ XRm(1, "main") \/ XRelease(1, "main")
SpecSlots == InitSlots /\ [][NextSlots]_vars

\* A session that enters and exits environment a, which has been used before,
\* and a second process that applies environments; b was never created.
InitApply ==
  /\ tree \in UsedTrees
  /\ InitProcs
  /\ \E t0 \in UsedTrees :
       slots = [n \in SlotNames |-> IF n = "a" THEN dumpEnv(t0, EmptyBundle) ELSE NoSlot]
  /\ state = NoState /\ lock = NoLock /\ clock = 0
  /\ hostTree = NoTree /\ envTree = [n \in Envs |-> NoTree]
  /\ loaded = DEFAULT_HOST_ENV
  /\ writer = 0
  /\ vcs = InitVcs(slots)
  /\ cmdsLeft = ApplyCmds /\ editsLeft = 0
  /\ codec = IdleCodec
NextApply ==
  \/ StartEnter(1) \/ StartExit(1)
  \/ EStart(1) \/ EAcquire(1) \/ ERead(1) \/ EDump(1) \/ EClean(1) \/ ERestore(1)
  \/ EWrite(1) \/ ERelease(1)
  \/ XAcquire(1, "main") \/ XRead(1, "main") \/ XDump(1, "main")
  \/ XClean(1, "main") \/ XRestore(1, "main") \/ XRm(1, "main") \/ XRelease(1, "main")
  \/ StartApply(2) \/ AStart(2) \/ ARestore(2)
SpecApply == InitApply /\ [][NextApply]_vars

\* One session issuing enter and exit in a clean checkout with branches main
\* and possibly topic, HEAD on one of them or detached; a and b were created
\* on any branch, which may have been deleted since. Between invocations the
\* user switches branch, detaches HEAD or deletes a branch HEAD is not on.
GitSwitch ==
  /\ Quiet /\ editsLeft > 0
  /\ editsLeft' = editsLeft - 1
  /\ \/ \E b \in vcs.refs \cup {Detached} : b # vcs.pos /\ vcs' = [vcs EXCEPT !.pos = b]
     \/ \E b \in vcs.refs \ {vcs.pos} : vcs' = [vcs EXCEPT !.refs = @ \ {b}]
  /\ UNCHANGED <<tree, slots, state, lock, clock, procVars, cmdsLeft, hostTree, envTree,
                 loaded, writer, codec, touched, details>>
InitBranch ==
  /\ tree = CleanTree
  /\ InitProcs
  /\ slots = [n \in SlotNames |-> IF n \in Envs THEN EmptyBundle ELSE NoSlot]
  /\ state = NoState /\ lock = NoLock /\ clock = 0
  /\ hostTree = NoTree /\ envTree = [n \in Envs |-> NoTree]
  /\ loaded = DEFAULT_HOST_ENV
  /\ writer = 0
  /\ \E refs \in {{"main"}, BranchNames} : \E at \in refs \cup {Detached} :
     \E made \in [Envs -> Positions] :
       vcs = [pos |-> at, refs |-> refs,
              info |-> [n \in SlotNames |-> IF n \in Envs THEN made[n] ELSE NoInfo],
              hostPos |-> NoInfo]
  /\ cmdsLeft = BranchCmds /\ editsLeft = BranchEdits
  /\ codec = IdleCodec
NextBranch == NextSeq \/ GitSwitch
SpecBranch == InitBranch /\ [][NextBranch]_vars

\* Waiting and termination. Independent processes issue enter and exit on a
\* tree that is free or occupied by a. Every await of enterEnv and exitEnv
\* returns, so a process that can take a step of its own takes one.
InitWait ==
  /\ tree = CleanTree
  /\ InitStore \/ InitOccupied
  /\ InitProcs
  /\ cmdsLeft = WaitCmds /\ editsLeft = 0
  /\ codec = IdleCodec
EnterProgress(p) ==
  \/ EStart(p) \/ EAcquire(p) \/ ERead(p) \/ EBusyRelease(p) \/ EContinue(p)
  \/ EDump(p) \/ EClean(p) \/ ERestore(p) \/ EWrite(p) \/ ERelease(p)
ExitProgress(p) ==
  \/ XAcquire(p, "main") \/ XRead(p, "main") \/ XDump(p, "main") \/ XClean(p, "main")
  \/ XRestore(p, "main") \/ XRm(p, "main") \/ XRelease(p, "main")

\* No deadline expires: acquireLock polls every 100 ms and enterEnv every
\* second, and all of it happens well within 30 s and 300 s.
NextWait ==
  \E p \in Procs :
    \/ StartEnter(p) \/ StartExit(p)
    \/ EnterProgress(p)
    \/ ExitProgress(p)
SpecWait ==
  /\ InitWait /\ [][NextWait]_vars
  /\ \A p \in Procs : WF_vars(EnterProgress(p)) /\ WF_vars(ExitProgress(p))

\* Deadlines may expire, and an exit may stall for good wherever it is. Every
\* round of enterEnv's loop sleeps a second, so `Date.now() - start > timeoutMs`
\* cannot be false at the top of the loop for ever.
NextLive ==
  \/ NextWait
  \/ \E p \in Procs : EDeadline(p) \/ ELockTimeout(p) \/ XLockTimeout(p, "main")
SpecLive ==
  /\ InitWait /\ [][NextLive]_vars
  /\ \A p \in Procs : WF_vars(EnterSteps(p)) /\ SF_vars(EDeadline(p))

\* ------------------------------------------------------------------ claims
Swapping == {"e_dump", "e_clean", "e_restore", "e_write"}
Critical == {"e_read", "e_busy", "e_dump", "e_clean", "e_restore", "e_write", "e_release",
             "x_read", "x_dump", "x_clean", "x_restore", "x_rm", "x_release"}

\* C1: an enter(y) is at none of its destructive steps (snapshot into the
\* host slot, reset, restore, write of the record) while the record names
\* another environment x # y: at most one name occupies the tree.
C1_EnterSwapsOnlyWhenFree ==
  \A p \in Procs :
    (Alive(p) /\ pc[p]["main"] \in Swapping) =>
      (state = NoState \/ state.activeEnv = cmd[p].name)

\* C2: no two processes are at the same time between their own lock
\* acquisition and their release.
C2_OneCriticalSection ==
  \A p, q \in Procs :
    (p # q /\ Alive(p) /\ Alive(q)) =>
      ~(pc[p]["main"] \in Critical /\ pc[q]["main"] \in Critical)

\* C3: an exit that passes the identity check succeeds and leaves the tree as
\* it was when the preceding enter snapshotted the host.
C3_HostRoundTrip ==
  \A p \in Procs :
    (At(p, "main", "x_release") /\ st[p]["main"] # NoState /\ err[p]["main"] # "identity")
      => (err[p]["main"] = "none" /\ tree = hostTree)

\* C4: an enter that swaps in an environment exited before succeeds and leaves
\* the tree as it was when that exit snapshotted the environment.
C4_EnvPersistence ==
  \A p \in Procs :
    (At(p, "main", "e_release") /\ (ret[p] \/ err[p]["main"] # "none")
       /\ envTree[cmd[p].name] # NoTree)
      => (err[p]["main"] = "none" /\ tree = envTree[cmd[p].name])

\* C5: dumpEnv into a slot, cleanWorkspace, restoreEnv of that slot succeeds
\* and gives back the tree that was dumped.
C5_SnapshotRoundTrip ==
  codec.phase = "restored" => (codec.ok /\ tree = codec.orig)

\* C6: an enter of the environment that already occupies the tree goes from
\* its read of the record straight to the release of the lock and returns
\* false: no step of it changes the tree, a slot or the record (timestamp
\* included), and it never reaches the busy release and sleep.
C6_FastPath(p) ==
  /\ Alive(p)
  /\ cmd[p].op = "enter"
  /\ \/ pc[p]["main"] = "e_read" /\ state # NoState /\ state.activeEnv = cmd[p].name
     \/ pc[p]["main"] = "e_release" /\ err[p]["main"] = "none" /\ ~ret[p]
C6_ReentryIsNoOp ==
  [][\A p \in Procs :
       (C6_FastPath(p) /\ pc'[p] # pc[p]) =>
         /\ tree' = tree /\ slots' = slots /\ state' = state
         /\ pc[p]["main"] = "e_read" => (pc'[p]["main"] = "e_release" /\ ~ret'[p])
         /\ pc[p]["main"] = "e_release" => (pc'[p]["main"] = "done" /\ exitCode'[p] = 0)]_vars
\* an enter of the occupying environment is about to return, in an edited tree
C6_Witness ==
  \E p \in Procs :
    /\ C6_FastPath(p) /\ pc[p]["main"] = "e_release"
    /\ state # NoState /\ state.activeEnv = cmd[p].name
    /\ tree # CleanTree

\* C7: an exit without --force whose CCENV_ACTIVE is unset or names another
\* environment than the occupant fails with status 1, and no step of it
\* changes the tree, a slot or the record.
C7_Mismatch(p) ==
  /\ Alive(p)
  /\ cmd[p].op = "exit" /\ ~cmd[p].force
  /\ \/ pc[p]["main"] = "x_read" /\ state # NoState /\ cmd[p].ident # state.activeEnv
     \/ pc[p]["main"] = "x_release" /\ err[p]["main"] = "identity"
C7_MismatchedExitIsRejected ==
  [][\A p \in Procs :
       (C7_Mismatch(p) /\ pc'[p] # pc[p]) =>
         /\ tree' = tree /\ slots' = slots /\ state' = state
         /\ pc[p]["main"] = "x_read" =>
              (pc'[p]["main"] = "x_release" /\ err'[p]["main"] = "identity")
         /\ pc[p]["main"] = "x_release" => (pc'[p]["main"] = "done" /\ exitCode'[p] = 1)]_vars
\* a rejected exit has ended with status 1 and the tree is still occupied
C7_Witness ==
  \E p \in Procs :
    /\ pc[p]["main"] = "done" /\ cmd[p].op = "exit" /\ ~cmd[p].force
    /\ err[p]["main"] = "identity" /\ exitCode[p] = 1
    /\ state # NoState /\ cmd[p].ident # state.activeEnv

\* C8: an exit --force that finds the tree occupied succeeds and leaves no
\* record, whatever CCENV_ACTIVE is.
C8_ForcedExitSucceeds ==
  \A p \in Procs :
    (At(p, "main", "x_release") /\ cmd[p].op = "exit" /\ cmd[p].force
       /\ st[p]["main"] # NoState)
      => (err[p]["main"] = "none" /\ state = NoState)

\* C9: the child commands of two runs against the same environment name never
\* run at the same time.
C9_RunsAreSerialized ==
  \A p, q \in Procs :
    (p # q /\ cmd[p].op = "run" /\ cmd[q].op = "run" /\ cmd[p].name = cmd[q].name)
      => ~(At(p, "main", "r_child") /\ At(q, "main", "r_child"))

\* C10: a run that had swapped in and got SIGINT or SIGTERM has ended only
\* after its handler's forced exit completed its snapshot, reset and restore.
C10_SignalExitCompletes ==
  \A p \in Procs :
    (pc[p]["main"] = "done" /\ cmd[p].op = "run" /\ entered[p] /\ signalHandled[p])
      => (pc[p]["sig"] = "x_returned" /\ err[p]["sig"] = "none")

ExitPcs == {"x_acquire", "x_read", "x_dump", "x_clean", "x_restore", "x_rm", "x_release"}

\* C11: when the cleanup exit of a run that was not interrupted is about to
\* return, it has succeeded, the record is gone and the tree is the host tree
\* that the run's enter had saved, whatever the child's status was.
C11_RunRestoresHost ==
  \A p \in Procs :
    (At(p, "main", "x_release") /\ cmd[p].op = "run" /\ ~signalHandled[p])
      => (err[p]["main"] = "none" /\ state = NoState /\ tree = hostTree)

\* C12: a run whose enter found its environment already active starts no
\* exit: none of its steps changes the record, a slot or (the child's writes
\* aside) the tree, and it ends with the record still naming the environment.
C12_NoSwapRun(p) ==
  /\ Alive(p)
  /\ cmd[p].op = "run"
  /\ \/ pc[p]["main"] = "e_read" /\ state # NoState /\ state.activeEnv = cmd[p].name
     \/ pc[p]["main"] = "e_release" /\ err[p]["main"] = "none" /\ ~ret[p]
     \/ pc[p]["main"] = "r_child" /\ ~entered[p]
C12_RunWithoutSwapDoesNotExit ==
  [][\A p \in Procs :
       (C12_NoSwapRun(p) /\ pc'[p] # pc[p]) =>
         /\ tree' = tree /\ slots' = slots /\ state' = state
         /\ ~touched'[p]
         /\ pc'[p]["main"] \notin ExitPcs /\ pc'[p]["sig"] \notin ExitPcs]_vars
\* such a run has ended after its child, and the record still names its environment
C12_Witness ==
  \E p \in Procs :
    /\ pc[p]["main"] = "done" /\ cmd[p].op = "run"
    /\ ~entered[p] /\ ~signalHandled[p] /\ err[p]["main"] = "none"
    /\ ~touched[p]
    /\ state # NoState /\ state.activeEnv = cmd[p].name

\* C13: a run that ends after its child has run ends with the signal's code
\* if it was interrupted, and otherwise with the child's status (which
\* exitCode holds while the cleanup exit is under way).
C13_RunStatus ==
  [][\A p \in Procs :
       (Alive(p) /\ cmd[p].op = "run" /\ pc'[p]["main"] = "done") =>
         /\ signalHandled'[p] => exitCode'[p] = sigCode'[p]
         /\ (~signalHandled'[p] /\ pc[p]["main"] \in ExitPcs) => exitCode'[p] = exitCode[p]]_vars

\* C14: a run never has two cleanup exits under way, one started by its
\* finally block and one by its signal handler.
C14_OneCleanupExit ==
  \A p \in Procs :
    (Alive(p) /\ cmd[p].op = "run")
      => ~(pc[p]["main"] \in ExitPcs /\ pc[p]["sig"] \in ExitPcs)

\* C15: once an enter or exit invocation has returned or thrown, the lock
\* marker is not one that it created: on every path the marker it acquired
\* has been removed.
C15_LockReleasedOnReturn ==
  \A p \in Procs :
    (pc[p]["main"] = "done" /\ cmd[p].op \in {"enter", "exit"})
      => (lock[1] # p /\ lock # StaleLock)
\* an exit whose restore failed has thrown, and no marker is left
C15_Witness ==
  \E p \in Procs :
    /\ pc[p]["main"] = "done" /\ cmd[p].op = "exit"
    /\ err[p]["main"] = "restore" /\ touched[p]
    /\ lock = NoLock

\* C16: a process that is about to read or write the record holds the lock:
\* the marker in place is the one its own acquireLock created.
RecordAccess == {"e_read", "e_write", "x_read", "x_rm", "d_read", "ls_read", "s_read"}
C16_RecordAccessUnderLock ==
  \A p \in Procs : \A t \in Flows :
    (Alive(p) /\ pc[p][t] \in RecordAccess) => lock = <<p, t>>

\* C17: an enter that failed on the lock deadline or on its own deadline, and
\* an exit that failed on the lock deadline, has performed no snapshot, reset,
\* restore or change of the record.
C17_ContentionFailed(p) ==
  /\ pc[p]["main"] = "done"
  /\ \/ cmd[p].op = "enter" /\ err[p]["main"] \in {"lock", "deadline"}
     \/ cmd[p].op = "exit" /\ err[p]["main"] = "lock"
C17_ContentionFailsBeforeDestructiveSteps ==
  \A p \in Procs : C17_ContentionFailed(p) => (~touched[p] /\ exitCode[p] = 1)
\* an enter has given up at its deadline while another environment occupies the tree
C17_Witness ==
  \E p \in Procs :
    /\ C17_ContentionFailed(p) /\ err[p]["main"] = "deadline"
    /\ state # NoState /\ state.activeEnv # cmd[p].name

\* C18 (as stated): a marker is created only when none exists; an acquireLock
\* that fails does so after polling, with the marker present and with the
\* identity its holder recorded; an open with no marker present succeeds.
C18_Created(p) == lock'[1] = p /\ lock[1] # p
C18_Failed(p) == cmd[p].op = "lock" /\ err'[p]["main"] = "lock" /\ err[p]["main"] # "lock"
C18_ExclusiveCreate ==
  \A p \in Procs :
    /\ C18_Created(p) => lock = NoLock
    /\ (At(p, "main", "l_open") /\ pc'[p] # pc[p] /\ lock = NoLock) => lock' = <<p, "created">>
    /\ C18_Failed(p) => retried[p]
C19_StaleMarkerStays ==
  [][lock = StaleLock =>
       /\ lock' = StaleLock
       /\ \A p \in Procs :
            (/\ Alive(p) /\ cmd[p].op \in {"enter", "exit"}
             /\ pc[p]["main"] \in {"e_top", "x_acquire"} /\ pc'[p] # pc[p]) =>
              (pc'[p]["main"] = "done" /\ err'[p]["main"] \in {"lock", "deadline"})]_vars

\* C20: once restoreEnv has thrown, the invocation does nothing but release the
\* lock and end with status 1: tree, slots and record stay as the failure left
\* them; after a failed enter there is no record, after a failed exit the
\* record is the one exitEnv read.
C20_RestoreFailed(p) ==
  Alive(p) /\ cmd[p].op \in {"enter", "exit"} /\ err[p]["main"] = "restore"
C20_NoRollback ==
  [][\A p \in Procs :
       /\ (Alive(p) /\ err[p]["main"] = "none" /\ err'[p]["main"] = "restore") =>
            (state' = state /\ slots' = slots /\ lock' = lock /\ Alive(p)')
       /\ (C20_RestoreFailed(p) /\ pc'[p] # pc[p]) =>
            /\ tree' = tree /\ slots' = slots /\ state' = state
            /\ pc'[p]["main"] = "done" /\ exitCode'[p] = 1 /\ err'[p] = err[p]
            /\ lock' = NoLock
            /\ cmd[p].op = "enter" => state = NoState
            /\ cmd[p].op = "exit" => (state # NoState /\ state = st[p]["main"])]_vars
\* an enter has ended on a failed restore: reset tree, no record, no lock
C20_Witness ==
  \E p \in Procs :
    /\ pc[p]["main"] = "done" /\ cmd[p].op = "enter" /\ err[p]["main"] = "restore"
    /\ exitCode[p] = 1 /\ touched[p] /\ state = NoState /\ lock = NoLock
    /\ tree # hostTree

\* C26: a second consecutive cleanWorkspace leaves the work tree, the index and
\* the control directory as the first one left them.
C26_ResetIdempotent ==
  [][(codec.phase = "cleaned" /\ codec'.phase = "recleaned") =>
       (tree' = tree /\ slots' = slots /\ state' = state /\ lock' = lock)]_vars
\* a tree with staged, unstaged, untracked and ignored content has been reset twice
C26_Witness ==
  /\ codec.phase = "recleaned"
  /\ codec.orig.idx # HeadOf /\ codec.orig.wt # codec.orig.idx
  /\ Untracked(codec.orig) # {} /\ codec.orig.ign # 0

\* C28 (as stated): after cleanWorkspace the index and the tracked files equal
\* HEAD and the tree holds neither untracked nor ignored files.
C28_ResetRemovesUntrackedAndIgnored ==
  codec.phase \in {"cleaned", "recleaned"} =>
    (tree.idx = HeadOf /\ tree.wt = HeadOf /\ Untracked(tree) = {} /\ tree.ign = 0)
\* C28 (amended): after cleanWorkspace the index and the tracked files equal
\* HEAD and the tree holds no untracked file; an ignored file is left as it was.
C28_ResetKeepsIgnored ==
  codec.phase \in {"cleaned", "recleaned"} =>
    (tree.idx = HeadOf /\ tree.wt = HeadOf /\ Untracked(tree) = {} /\ tree.ign = codec.orig.ign)
\* a tree with an untracked and an ignored file has been reset
C28_Witness ==
  /\ codec.phase = "cleaned"
  /\ Untracked(codec.orig) # {} /\ codec.orig.ign # 0 /\ codec.orig.idx # HeadOf

\* C29: after dumpEnv the slot holds an archive exactly when the tree had an
\* untracked file, with exactly those files, whatever archive the slot held
\* before; the restore that follows brings back no untracked file that the
\* dumped tree did not have.
C29_Archived == {e[1] : e \in slots[CodecSlot].tar}
C29_ArchiveIffUntracked ==
  /\ codec.phase \in {"dumped", "cleaned", "recleaned", "restored"} =>
       /\ slots[CodecSlot].tar # {} <=> Untracked(codec.orig) # {}
       /\ C29_Archived = Untracked(codec.orig)
  /\ codec.phase = "restored" =>
       \A f \in Files : (tree.wt[f] # 0 /\ f \notin Untracked(codec.orig)) => codec.orig.wt[f] # 0
\* a tree without untracked files was dumped into a slot whose earlier archive
\* is gone now, and the restore has run
C29_Witness ==
  /\ codec.phase = "restored" /\ codec.ok
  /\ Untracked(codec.orig) = {} /\ slots[CodecSlot].tar = {}
  /\ codec.orig.ign # 0 /\ codec.orig # CleanTree

\* C27: no archive of any slot holds a path of the control directory, and the
\* cleanWorkspace of an enter or an exit leaves the slots, the lock marker and
\* the record as they are.
C27_CleanStep ==
  \E p \in Procs, t \in Flows :
    Alive(p) /\ pc[p][t] \in {"e_clean", "x_clean"} /\ pc'[p][t] # pc[p][t]
C27_ControlDirExcluded ==
  [][/\ \A n \in SlotNames : \A e \in slots'[n].tar : e[1] \notin ControlPaths \cup {ControlDir}
     /\ C27_CleanStep => (slots' = slots /\ lock' = lock /\ state' = state)]_vars
\* exit has dumped a tree with an untracked file and has reset it, holding the
\* lock, with the record in place
C27_Witness ==
  \E p \in Procs :
    /\ At(p, "main", "x_restore") /\ lock = <<p, "main">> /\ state # NoState
    /\ slots[state.activeEnv].tar # {} /\ slots[DEFAULT_HOST_ENV].dir

\* C21: an exitEnv that reads no record ends with status 0 having dumped,
\* reset and restored nothing and changed no slot, and the lock is released,
\* with or without force and whatever CCENV_ACTIVE is.
C21_NoRecordRead(p) ==
  /\ Alive(p) /\ cmd[p].op = "exit"
  /\ \/ pc[p]["main"] = "x_read" /\ state = NoState
     \/ pc[p]["main"] = "x_release" /\ st[p]["main"] = NoState /\ err[p]["main"] = "none"
C21_ExitWhileFreeIsNoOp ==
  [][\A p \in Procs : (C21_NoRecordRead(p) /\ pc'[p] # pc[p]) =>
       /\ tree' = tree /\ slots' = slots /\ state' = state /\ ~touched'[p]
       /\ err'[p]["main"] = "none"
       /\ pc'[p]["main"] \in {"x_release", "done"}
       /\ pc'[p]["main"] = "done" => (exitCode'[p] = 0 /\ lock' = NoLock)]_vars
\* an unforced exit claiming identity b has ended as a no-op on a modified tree
C21_Witness ==
  \E p \in Procs :
    /\ pc[p]["main"] = "done" /\ cmd[p].op = "exit" /\ ~cmd[p].force /\ cmd[p].ident = "b"
    /\ exitCode[p] = 0 /\ ~touched[p] /\ err[p]["main"] = "none"
    /\ state = NoState /\ lock = NoLock /\ tree # CleanTree /\ cmdsLeft = SeqCmds - 1

\* C22: delete fails with nothing removed when the name has no slot or is the
\* active environment; a slot is removed only by a delete of that name, whole,
\* with status 0, and never while it is the active environment.
C22_DeleteStep(p) == Alive(p) /\ cmd[p].op = "delete" /\ pc'[p] # pc[p]
C22_Fails(p) == slots' = slots /\ pc'[p]["main"] = "done" /\ exitCode'[p] = 1
C22_DeleteContract ==
  [][\A p \in Procs : C22_DeleteStep(p) =>
       /\ tree' = tree /\ state' = state /\ lock' = lock
       /\ \A n \in SlotNames \ {cmd[p].name} : slots'[n] = slots[n]
       /\ (pc[p]["main"] = "d_start" /\ ~slots[cmd[p].name].dir) => C22_Fails(p)
       /\ (pc[p]["main"] = "d_read" /\ state.activeEnv = cmd[p].name) => C22_Fails(p)
       /\ (pc[p]["main"] = "d_read" /\ state = NoState) => pc'[p]["main"] = "d_rm"
       /\ (pc'[p]["main"] = "done" /\ exitCode'[p] = 1) => slots' = slots
       /\ slots' # slots =>
            /\ state.activeEnv # cmd[p].name
            /\ slots'[cmd[p].name] = NoSlot
            /\ pc'[p]["main"] = "done" /\ exitCode'[p] = 0]_vars

\* C23: create of an existing name fails and leaves the slot as it is; create of
\* a new name writes the empty bundle with and without --empty; the restore of
\* an enter into a slot that still holds the empty bundle leaves a tree with no
\* staged, unstaged or untracked change.
C23_CreateContract ==
  [][\A p \in Procs :
       /\ (Alive(p) /\ cmd[p].op = "create" /\ pc'[p] # pc[p]) =>
            /\ tree' = tree /\ state' = state /\ lock' = lock
            /\ \A n \in SlotNames \ {cmd[p].name} : slots'[n] = slots[n]
            /\ (pc[p]["main"] = "c_start" /\ slots[cmd[p].name].dir) =>
                 (slots' = slots /\ pc'[p]["main"] = "done" /\ exitCode'[p] = 1)
            /\ (pc'[p]["main"] = "done" /\ exitCode'[p] = 0) =>
                 (~slots[cmd[p].name].dir /\ slots'[cmd[p].name] = EmptyBundle)
       /\ (At(p, "main", "e_restore") /\ pc'[p] # pc[p] /\ slots[cmd[p].name] = EmptyBundle) =>
            /\ pc'[p]["main"] = "e_write"
            /\ StagedDiff(tree') = {} /\ UnstagedDiff(tree') = {} /\ Untracked(tree') = {}]_vars
\* a created environment has been entered from a tree with staged and unstaged changes
C23_Witness ==
  \E p \in Procs :
    /\ At(p, "main", "e_write") /\ cmd[p].name = "a" /\ slots["a"] = EmptyBundle
    /\ StagedDiff(hostTree) # {} /\ UnstagedDiff(hostTree) # {} /\ tree = CleanTree

\* C30: the steps of an enter change no slot but the host slot, and not the
\* slot of the environment being entered; its dumpEnv puts the snapshot of the
\* tree as it is into the host slot; the steps of an exit change no slot but
\* that of the active environment.
C30_SlotWritesConfined ==
  [][\A p \in Procs : (Alive(p) /\ pc'[p] # pc[p]) =>
       /\ cmd[p].op = "enter" =>
            /\ \A n \in SlotNames \ {DEFAULT_HOST_ENV} : slots'[n] = slots[n]
            /\ slots'[cmd[p].name] = slots[cmd[p].name]
            /\ pc[p]["main"] = "e_dump" =>
                 slots'[DEFAULT_HOST_ENV] = dumpEnv(tree, slots[DEFAULT_HOST_ENV])
            /\ pc[p]["main"] # "e_dump" => slots' = slots
       /\ cmd[p].op = "exit" =>
            \A n \in SlotNames \ {state.activeEnv} : slots'[n] = slots[n]]_vars

\* C24: an enter or an apply of a name without a slot ends at its first step
\* with status 1 and "not found", the lock, the tree, the slots and the record
\* being as they were.
C24_NotFoundBeforeMutation ==
  [][\A p \in Procs :
       (/\ Alive(p) /\ cmd[p].op \in {"enter", "apply"} /\ pc'[p] # pc[p]
        /\ pc[p]["main"] \in {"e_start", "a_start"} /\ ~slots[cmd[p].name].dir) =>
         /\ pc'[p]["main"] = "done" /\ exitCode'[p] = 1
         /\ tree' = tree /\ slots' = slots /\ state' = state /\ lock' = lock
         /\ ~touched'[p]]_vars
\* an enter and an apply of the missing b have both failed on a modified tree
C24_Witness ==
  /\ pc[1]["main"] = "done" /\ cmd[1].op = "enter" /\ cmd[1].name = "b" /\ exitCode[1] = 1
  /\ pc[2]["main"] = "done" /\ cmd[2].op = "apply" /\ cmd[2].name = "b" /\ exitCode[2] = 1
  /\ err[2]["main"] = "notfound" /\ ~touched[1] /\ ~touched[2]
  /\ tree # CleanTree /\ lock = NoLock

\* C25: no step of an apply changes the lock, the record or a slot; its restore
\* is that of the named slot onto the tree as it is, without a reset, whoever
\* holds the lock and whatever occupies the tree.
C25_ApplyBypassesLock ==
  [][\A p \in Procs : (Alive(p) /\ cmd[p].op = "apply" /\ pc'[p] # pc[p]) =>
       /\ lock' = lock /\ state' = state /\ slots' = slots
       /\ pc[p]["main"] = "a_start" => tree' = tree
       /\ pc[p]["main"] = "a_restore" =>
            /\ tree' = restoreEnv(slots[cmd[p].name], tree).tree
            /\ pc'[p]["main"] = "done"]_vars
\* an apply has succeeded on a modified tree while an enter held the lock
C25_Witness ==
  /\ pc[2]["main"] = "done" /\ cmd[2].op = "apply" /\ exitCode[2] = 0 /\ touched[2]
  /\ lock = <<1, "main">> /\ Alive(1) /\ cmd[1].op = "enter"
  /\ tree # CleanTree /\ tree # cleanWorkspace(tree)

\* C32: inside the critical sections the steps come in a fixed order. A
\* swapping enter snapshots into the host slot, resets, restores the named
\* environment and then writes the record; exit snapshots into the activeEnv
\* slot, resets, restores the host and then deletes the record. So the tree
\* is reset only when the slot holds a snapshot of the tree as it is, the
\* record is written only once the environment is fully restored, and it is
\* deleted only once the host is fully restored.
C32_Snapshotted(n, taken) ==
  /\ slots[n] = dumpEnv(tree, slots[n])
  /\ taken = tree
C32_StepOrder ==
  [][\A p \in Procs :
       LET from == pc[p]["main"]
           to == pc'[p]["main"]
       IN /\ (from = "e_clean" /\ to = "e_restore")
               => C32_Snapshotted(DEFAULT_HOST_ENV, hostTree)
          /\ (from = "x_clean" /\ to = "x_restore")
               => C32_Snapshotted(st[p]["main"].activeEnv, envTree[st[p]["main"].activeEnv])
          /\ (from # to /\ state' # state /\ state' # NoState)
               => /\ from = "e_write"
                  /\ loaded = state'.activeEnv
                  /\ tree = restoreEnv(slots[state'.activeEnv], cleanWorkspace(hostTree)).tree
          /\ (from # to /\ state' # state /\ state' = NoState)
               => /\ from = "x_rm"
                  /\ loaded = state.hostEnv
                  /\ tree = restoreEnv(slots[state.hostEnv],
                                       cleanWorkspace(envTree[state.activeEnv])).tree
          /\ (from # to /\ slots' # slots) => from \in {"e_dump", "x_dump"}
          /\ (from # to /\ tree' # tree)
               => from \in {"e_clean", "e_restore", "x_clean", "x_restore"}]_vars
C32_Witness ==
  /\ pc[1]["main"] = "x_release" /\ err[1]["main"] = "none"
  /\ state = NoState /\ loaded = DEFAULT_HOST_ENV
  /\ envTree["a"] \notin {NoTree, CleanTree}
  /\ hostTree \notin {NoTree, CleanTree}

\* C35: a process removes the lock marker only while it is the holder: no step
\* of an enter or exit removes a marker that another process's acquireLock
\* created.
C35_OnlyHolderRemoves ==
  [][\A p \in Procs :
       (pc'[p] # pc[p] /\ lock \in (Procs \X Flows) /\ lock' = NoLock)
         => lock[1] = p]_vars

\* C40: a run process never ends while it holds the lock or while one of its
\* enter or exit critical sections is half done: at the step that ends it, the
\* marker is not its own and none of its flows is between acquireLock and
\* releaseLock.
C40_EndsOutsideCriticalSections ==
  [][\A p \in Procs :
       (cmd[p].op = "run" /\ Alive(p) /\ pc'[p]["main"] = "done")
         => /\ lock \notin ({p} \X Flows)
            /\ \A t \in Flows : pc[p][t] \notin Critical]_vars

\* C36: the forced exit of a run, in its cleanup phase or in its signal
\* handler, ends only the occupancy this run created: it removes no record
\* that another process's enter wrote and snapshots or resets no tree that
\* another session has swapped in.
C36_RunEndsOwnOccupancy ==
  [][\A p \in Procs : \A t \in Flows :
       (cmd[p].op = "run" /\ Alive(p) /\ pc'[p][t] # pc[p][t] /\ state # NoState
          /\ pc[p][t] \in {"x_dump", "x_clean", "x_rm"})
         => writer = p]_vars

\* C38: the host state captured by a swapping enter is not overwritten in the
\* host slot before it has been restored onto the tree: an enter snapshots
\* into the host slot only while the tree holds the host state, never while a
\* reset or unfinished restore has left an earlier capture as the only copy.
C38_HostSnapshotKept ==
  [][\A p \in Procs :
       (pc[p]["main"] = "e_dump" /\ pc'[p]["main"] = "e_clean")
         => loaded = DEFAULT_HOST_ENV]_vars

\* C39: the saved bundle of an environment is replaced only by a snapshot of a
\* tree that was restored from that environment: an exit snapshots into the
\* activeEnv slot only while the tree holds that environment, not after an
\* earlier exit has reset it and failed to restore the host.
C39_EnvSnapshotKept ==
  [][\A p \in Procs : \A t \in Flows :
       (pc[p][t] = "x_dump" /\ pc'[p][t] = "x_clean")
         => loaded = st[p][t].activeEnv]_vars

\* C37: whenever a record exists, both slots it names exist in the store: the
\* activeEnv slot and the hostEnv slot, so that exit can snapshot the
\* environment and restore the host.
C37_RecordSlotsExist ==
  state # NoState => (slots[state.activeEnv].dir /\ slots[state.hostEnv].dir)

\* C33: wait-then-proceed. An enter(y) that has found the tree occupied by
\* another environment and is still polling when the occupant's record is
\* gone eventually swaps y in, unless another contender swaps in first; no
\* deadline expires.
C33_Waiting(p) ==
  /\ Alive(p) /\ cmd[p].op = "enter"
  /\ \/ pc[p]["main"] \in {"e_busy", "e_sleep"}
     \/ retried[p] /\ pc[p]["main"] \in {"e_top", "e_read"}
C34_EnterTerminates ==
  \A p \in Procs :
    (Alive(p) /\ cmd[p].op = "enter") ~> (pc[p]["main"] = "done")
C34_Witness ==
  \E p \in Procs :
    /\ cmd[p].op = "enter" /\ pc[p]["main"] = "done" /\ err[p]["main"] = "deadline"
    /\ state.activeEnv = "a" /\ cmd[p].name = "b"

\* C31: restore re-positions the VCS. The restore of an enter leaves HEAD on
\* the branch recorded in the environment's bundle, or detached at the
\* recorded commit when that branch is gone or the bundle was taken on a
\* detached HEAD; the restore of an exit does the same with the host
\* snapshot, so that an exit after an enter is back where the host was: on its
\* branch if that still exists, detached otherwise.
C31_Recorded(at) == IF at \in vcs.refs THEN at ELSE Detached
C31_RestoreRepositions ==
  [][\A p \in Procs :
       LET from == pc[p]["main"]
           to == pc'[p]["main"]
       IN /\ (from = "e_restore" /\ to # from)
               => vcs'.pos = C31_Recorded(vcs.info[cmd[p].name])
          /\ (from = "x_restore" /\ to = "x_rm")
               => vcs'.pos = C31_Recorded(vcs.hostPos)]_vars
C31_Witness ==
  /\ pc[1]["main"] = "x_rm" /\ st[1]["main"].activeEnv = "a"
  /\ vcs.pos = "main" /\ vcs.hostPos = "main" /\ vcs.info["a"] = "topic"
  /\ "topic" \in vcs.refs
====
